---- MODULE Spec2Model ----
(***************************************************************************)
(* Tic-Tac-Toe, random bot against random bot (tic_tac_toe_game.py).       *)
(*                                                                         *)
(* The module models the four classes of the program:                      *)
(*   Board       a 3x3 list of lists holding None, 'X' or 'O'              *)
(*   GameLogic   check_win / check_draw, pure reads of the board           *)
(*   RandomBot   make_move: random.choice among available_moves, then      *)
(*               place_marker                                              *)
(*   GameRunner  run_game: the loop announce / move / display / check_win  *)
(*               / check_draw / switch                                     *)
(*                                                                         *)
(* The specifications share the variables:                                 *)
(*   Spec       main(): run_game on a fresh board (FairSpec adds the       *)
(*              progress of the single sequential thread)                  *)
(*   SpecApi    a fresh board, any sequence of place_marker calls, then a  *)
(*              place_marker / make_move / available_moves call            *)
(*   SpecLogic  a fresh board, any sequence of place_marker calls, then a  *)
(*              check_win / check_draw call                                *)
(*   SpecRead   a fresh board, any sequence of place_marker calls, then a  *)
(*              is_full / get_cell / str call                              *)
(***************************************************************************)
EXTENDS Integers, Sequences, FiniteSets

\* The board is N x N: range(3) throughout tic_tac_toe_game.py.
N == 3

\* The value of an empty cell (Python's None) and the two markers.
None == "None"

Markers == {"X", "O"}

Cells == Markers \cup {None}

\* range(3)
Range == 0 .. (N - 1)

\* The (row, col) pairs in the order the nested loops "for row / for col" visit them.
RowMajor == [i \in 1 .. (N * N) |-> <<(i - 1) \div N, (i - 1) % N>>]

\* Board.__init__: [[None for _ in range(3)] for _ in range(3)]
EmptyBoard == [row \in Range |-> [col \in Range |-> None]]

VARIABLES
    board,            \* Board.board, the list of lists
    current_player,   \* GameRunner.current_player
    pc,               \* the position of run_game
    output,           \* what run_game has printed, one entry per print call
    shown,            \* the text of the last board printed
    moveLog,          \* the markers of the make_move calls run_game has completed
    last              \* the last direct call on the objects and what it gave

vars == <<board, current_player, pc, output, shown, moveLog, last>>

runnerVars == <<current_player, pc, output, shown, moveLog>>

----------------------------------------------------------------------------
(* Board *)

\* Python list indexing of a list of length N: 0..N-1 as is, -N..-1 from the
\* end, anything else raises IndexError (here: -1).
ListIndex(i) ==
    IF i \in Range THEN i
    ELSE IF i \in (0 - N) .. (0 - 1) THEN i + N
    ELSE 0 - 1

IndexOk(row, col) == ListIndex(row) \in Range /\ ListIndex(col) \in Range

\* Board.get_cell: self.board[row][col]
get_cell(b, row, col) ==
    IF IndexOk(row, col)
    THEN [exc |-> "none", ret |-> b[ListIndex(row)][ListIndex(col)]]
    ELSE [exc |-> "IndexError", ret |-> None]

\* str() of the small integers a coordinate can be.
IntStr(i) ==
    LET digits == <<"0", "1", "2", "3", "4", "5", "6", "7", "8", "9">>
    IN  IF i < 0 THEN "-" \o digits[(0 - i) + 1] ELSE digits[i + 1]

\* place_marker without the occupied check: the cell is overwritten.
place_marker_overwrite(b, row, col, marker) ==
    IF ~IndexOk(row, col)
    THEN [exc |-> "IndexError", msg |-> "list index out of range", board |-> b]
    ELSE [exc |-> "none", msg |-> "",
          board |-> [b EXCEPT ![ListIndex(row)][ListIndex(col)] = marker]]

\* place_marker refusing only a cell that holds the other marker.
place_marker_sameMarkerOk(b, row, col, marker) ==
    IF ~IndexOk(row, col)
    THEN [exc |-> "IndexError", msg |-> "list index out of range", board |-> b]
    ELSE IF b[ListIndex(row)][ListIndex(col)] \notin {None, marker}
    THEN [exc |-> "ValueError",
          msg |-> "Cell (" \o IntStr(row) \o ", " \o IntStr(col) \o ") already occupied",
          board |-> b]
    ELSE [exc |-> "none", msg |-> "",
          board |-> [b EXCEPT ![ListIndex(row)][ListIndex(col)] = marker]]

\* place_marker checking board[row][col] and writing board[col][row].
place_marker_transposed(b, row, col, marker) ==
    IF ~IndexOk(row, col)
    THEN [exc |-> "IndexError", msg |-> "list index out of range", board |-> b]
    ELSE IF b[ListIndex(row)][ListIndex(col)] # None
    THEN [exc |-> "ValueError",
          msg |-> "Cell (" \o IntStr(row) \o ", " \o IntStr(col) \o ") already occupied",
          board |-> b]
    ELSE [exc |-> "none", msg |-> "",
          board |-> [b EXCEPT ![ListIndex(col)][ListIndex(row)] = marker]]

\* Board.place_marker: raises ValueError on an occupied cell, else writes it.
place_marker(b, row, col, marker) ==
    IF ~IndexOk(row, col)
    THEN [exc |-> "IndexError", msg |-> "list index out of range", board |-> b]
    ELSE IF b[ListIndex(row)][ListIndex(col)] # None
    THEN [exc |-> "ValueError",
          msg |-> "Cell (" \o IntStr(row) \o ", " \o IntStr(col) \o ") already occupied",
          board |-> b]
    ELSE [exc |-> "none", msg |-> "",
          board |-> [b EXCEPT ![ListIndex(row)][ListIndex(col)] = marker]]

\* is_full whose row loop stops one row early: the last row is never read.
is_full_skipsLastRow(b) ==
    ~(\E i \in 1 .. (Len(RowMajor) - N) : b[RowMajor[i][1]][RowMajor[i][2]] = None)

\* Board.is_full: the first None found returns False.
is_full(b) == ~(\E i \in 1 .. Len(RowMajor) : b[RowMajor[i][1]][RowMajor[i][2]] = None)

\* available_moves appending (col, row) for the empty cell (row, col).
available_moves_swapped(b) ==
    LET IsEmpty(rc) == b[rc[1]][rc[2]] = None
        found == SelectSeq(RowMajor, IsEmpty)
    IN  [i \in 1 .. Len(found) |-> <<found[i][2], found[i][1]>>]

\* Board.available_moves: the list of the empty (row, col), in loop order.
available_moves(b) ==
    LET IsEmpty(rc) == b[rc[1]][rc[2]] = None
    IN  SelectSeq(RowMajor, IsEmpty)

\* A row of __str__ with the test "col < 2" forgotten: "|" after every column.
RECURSIVE RowStr_trailingBar(_, _, _)
RowStr_trailingBar(b, row, col) ==
    IF col >= N THEN ""
    ELSE (IF b[row][col] = None THEN " " ELSE b[row][col])
         \o "|"
         \o RowStr_trailingBar(b, row, col + 1)

\* Board.__str__, one row: the cells' characters (a space for None) with "|"
\* after every column but the last.
RECURSIVE RowStr(_, _, _)
RowStr(b, row, col) ==
    IF col >= N THEN ""
    ELSE (IF b[row][col] = None THEN " " ELSE b[row][col])
         \o (IF col < N - 1 THEN "|" ELSE "")
         \o RowStr(b, row, col + 1)

\* Board.__str__: the rows with "-+-+-" after every row but the last, joined
\* by newlines.
RECURSIVE StrLines(_, _)
StrLines(b, row) ==
    IF row >= N THEN <<>>
    ELSE <<RowStr(b, row, 0)>>
         \o (IF row < N - 1 THEN <<"-+-+-">> ELSE <<>>)
         \o StrLines(b, row + 1)

RECURSIVE Join(_, _)
Join(sep, lines) ==
    IF Len(lines) = 0 THEN ""
    ELSE IF Len(lines) = 1 THEN lines[1]
    ELSE lines[1] \o sep \o Join(sep, Tail(lines))

Str(b) == Join("\n", StrLines(b, 0))

----------------------------------------------------------------------------
(* GameLogic *)

\* check_win testing the main diagonal twice and never the anti-diagonal.
check_win_mainDiagonalTwice(b, marker) ==
    \/ \E row \in Range : \A col \in Range : get_cell(b, row, col).ret = marker
    \/ \E col \in Range : \A row \in Range : get_cell(b, row, col).ret = marker
    \/ \A i \in Range : get_cell(b, i, i).ret = marker
    \/ \A i \in Range : get_cell(b, i, i).ret = marker

\* GameLogic.check_win: rows, then columns, then the two diagonals, each read
\* through Board.get_cell.
check_win(b, marker) ==
    \/ \E row \in Range : \A col \in Range : get_cell(b, row, col).ret = marker
    \/ \E col \in Range : \A row \in Range : get_cell(b, row, col).ret = marker
    \/ \A i \in Range : get_cell(b, i, i).ret = marker
    \/ \A i \in Range : get_cell(b, i, (N - 1) - i).ret = marker

\* check_draw with the second "not" dropped.
check_draw_missingNot(b) == is_full(b) /\ ~check_win(b, "X") /\ check_win(b, "O")

\* check_draw without the is_full test.
check_draw_noFull(b) == ~check_win(b, "X") /\ ~check_win(b, "O")

\* check_draw that forgets the win of 'O'.
check_draw_ignoresO(b) == is_full(b) /\ ~check_win(b, "X")

\* GameLogic.check_draw
check_draw(b) == is_full(b) /\ ~check_win(b, "X") /\ ~check_win(b, "O")

----------------------------------------------------------------------------
(* RandomBot *)

\* RandomBot.__init__ as main() calls it: the marker is set once.
bot_x == [marker |-> "X"]

bot_o == [marker |-> "O"]

Bots == {bot_x, bot_o}

\* What random.choice may return for a non-empty list: any of its elements.
Choices(list) == {list[k] : k \in 1 .. Len(list)}

\* The values of random.choice a call of make_move on board b can see; on a
\* board with no move left random.choice is not called.
ChoiceInputs(b) ==
    IF available_moves(b) = <<>> THEN {<<>>} ELSE Choices(available_moves(b))

\* make_move without the test for an empty list: random.choice([]) raises
\* IndexError.
make_move_noCheck(self, b, choice) ==
    IF available_moves(b) = <<>>
    THEN [exc |-> "IndexError", msg |-> "Cannot choose from an empty sequence",
          board |-> b, ret |-> <<>>]
    ELSE LET placed == place_marker(b, choice[1], choice[2], self.marker)
         IN  [exc |-> placed.exc, msg |-> placed.msg, board |-> placed.board,
              ret |-> IF placed.exc = "none" THEN choice ELSE <<>>]

\* make_move passing (col, row) to place_marker.
make_move_swapped(self, b, choice) ==
    IF available_moves(b) = <<>>
    THEN [exc |-> "ValueError", msg |-> "No available moves", board |-> b, ret |-> <<>>]
    ELSE LET placed == place_marker(b, choice[2], choice[1], self.marker)
         IN  [exc |-> placed.exc, msg |-> placed.msg, board |-> placed.board,
              ret |-> IF placed.exc = "none" THEN choice ELSE <<>>]

\* RandomBot.make_move with random.choice returning `choice`: ValueError when
\* no move is available, else place_marker on the chosen cell.
make_move(self, b, choice) ==
    IF available_moves(b) = <<>>
    THEN [exc |-> "ValueError", msg |-> "No available moves", board |-> b, ret |-> <<>>]
    ELSE LET placed == place_marker(b, choice[1], choice[2], self.marker)
         IN  [exc |-> placed.exc, msg |-> placed.msg, board |-> placed.board,
              ret |-> IF placed.exc = "none" THEN choice ELSE <<>>]

----------------------------------------------------------------------------
(* State after construction: main() up to the call of run_game *)

NoCall == [op |-> "none", args |-> <<>>, before |-> EmptyBoard,
           exc |-> "none", ret |-> <<>>]

Init ==
    /\ board = EmptyBoard
    /\ current_player = "X"
    /\ pc = "start"
    /\ output = <<>>
    /\ shown = ""
    /\ moveLog = <<>>
    /\ last = NoCall

----------------------------------------------------------------------------
(* GameRunner.run_game *)

\* The three prints before the loop.
Start ==
    /\ pc = "start"
    /\ output' = output \o <<"Starting Tic-Tac-Toe Bot vs Bot game:",
                             "\nInitial board:", "<board>">>
    /\ shown' = Str(board)
    /\ pc' = "announce"
    /\ UNCHANGED <<board, current_player, moveLog, last>>

\* Top of the loop: time.sleep(1), then the "Player <marker>:" line.
Announce ==
    /\ pc = "announce"
    /\ output' = Append(output, "\nPlayer " \o current_player \o ":")
    /\ pc' = "move"
    /\ UNCHANGED <<board, current_player, shown, moveLog, last>>

\* The bot run_game calls for the current player.
CurrentBot == IF current_player = "X" THEN bot_x ELSE bot_o

\* The try block: the current player's bot moves; a ValueError is printed and
\* ends the loop, any other exception leaves run_game.
Move ==
    /\ pc = "move"
    /\ \E choice \in ChoiceInputs(board) :
           LET r == make_move(CurrentBot, board, choice)
           IN  /\ board' = r.board
               /\ IF r.exc = "none"
                  THEN /\ pc' = "display"
                       /\ moveLog' = Append(moveLog, CurrentBot.marker)
                       /\ UNCHANGED output
                  ELSE IF r.exc = "ValueError"
                  THEN /\ pc' = "done"
                       /\ output' = Append(output, "Error: " \o r.msg)
                       /\ UNCHANGED moveLog
                  ELSE /\ pc' = "raised"
                       /\ UNCHANGED <<output, moveLog>>
    /\ UNCHANGED <<current_player, shown, last>>

\* print(self.board) after the move.
Display ==
    /\ pc = "display"
    /\ output' = Append(output, "<board>")
    /\ shown' = Str(board)
    /\ pc' = "check_win"
    /\ UNCHANGED <<board, current_player, moveLog, last>>

\* CheckWin with the marker 'X' written in place of self.current_player.
CheckWin_onlyX ==
    /\ pc = "check_win"
    /\ IF check_win(board, "X")
       THEN /\ output' = Append(output, "\nPLAYER " \o current_player \o " WON!")
            /\ pc' = "done"
       ELSE /\ pc' = "check_draw"
            /\ UNCHANGED output
    /\ UNCHANGED <<board, current_player, shown, moveLog, last>>

\* CheckWin asking check_win about the player who did not move.
CheckWin_checksOpponent ==
    /\ pc = "check_win"
    /\ IF check_win(board, IF current_player = "X" THEN "O" ELSE "X")
       THEN /\ output' = Append(output, "\nPLAYER " \o current_player \o " WON!")
            /\ pc' = "done"
       ELSE /\ pc' = "check_draw"
            /\ UNCHANGED output
    /\ UNCHANGED <<board, current_player, shown, moveLog, last>>

\* CheckWin with the break after the print forgotten: the loop goes on.
CheckWin_noBreak ==
    /\ pc = "check_win"
    /\ IF check_win(board, current_player)
       THEN output' = Append(output, "\nPLAYER " \o current_player \o " WON!")
       ELSE UNCHANGED output
    /\ pc' = "check_draw"
    /\ UNCHANGED <<board, current_player, shown, moveLog, last>>

\* if self.game_logic.check_win(self.current_player): print, break
CheckWin ==
    /\ pc = "check_win"
    /\ IF check_win(board, current_player)
       THEN /\ output' = Append(output, "\nPLAYER " \o current_player \o " WON!")
            /\ pc' = "done"
       ELSE /\ pc' = "check_draw"
            /\ UNCHANGED output
    /\ UNCHANGED <<board, current_player, shown, moveLog, last>>

\* CheckDraw with the break after the print forgotten: the loop goes on.
CheckDraw_noBreak ==
    /\ pc = "check_draw"
    /\ IF check_draw(board)
       THEN output' = Append(output, "\nGAME DRAW!")
       ELSE UNCHANGED output
    /\ pc' = "switch"
    /\ UNCHANGED <<board, current_player, shown, moveLog, last>>

\* if self.game_logic.check_draw(): print, break
CheckDraw ==
    /\ pc = "check_draw"
    /\ IF check_draw(board)
       THEN /\ output' = Append(output, "\nGAME DRAW!")
            /\ pc' = "done"
       ELSE /\ pc' = "switch"
            /\ UNCHANGED output
    /\ UNCHANGED <<board, current_player, shown, moveLog, last>>

\* Switch with the two branches of the conditional exchanged: no flip.
Switch_noFlip ==
    /\ pc = "switch"
    /\ current_player' = (IF current_player = "X" THEN "X" ELSE "O")
    /\ pc' = "announce"
    /\ UNCHANGED <<board, output, shown, moveLog, last>>

\* self.current_player = 'O' if self.current_player == 'X' else 'X'
Switch ==
    /\ pc = "switch"
    /\ current_player' = (IF current_player = "X" THEN "O" ELSE "X")
    /\ pc' = "announce"
    /\ UNCHANGED <<board, output, shown, moveLog, last>>

Next == Start \/ Announce \/ Move \/ Display \/ CheckWin \/ CheckDraw \/ Switch

Spec == Init /\ [][Next]_vars

\* run_game is one sequential thread: a step that can be taken is taken.
FairSpec == Spec /\ WF_vars(Next)

----------------------------------------------------------------------------
(* Direct calls on a Board, a GameLogic and the bots, as the unit tests make   *)
(* them: place_marker calls that arrange a board, then the call under          *)
(* observation, whose arguments, exception and result `last` records.          *)
(* Every content of the 3x3 grid is arranged: 3^9 boards.                      *)

\* A place_marker call of the arranging phase that succeeds.
Arrange ==
    /\ last.op = "none"
    /\ \E row \in Range, col \in Range, marker \in Markers :
           LET r == place_marker(board, row, col, marker)
           IN  /\ r.exc = "none"
               /\ board' = r.board
    /\ UNCHANGED <<runnerVars, last>>

\* How far beyond range(3), on either side, the coordinates given to an
\* observed call go: negative ones, which a Python list counts from its end,
\* and ones past the end, which raise IndexError.
Over == 1

\* The coordinates given to an observed call.
Coords == (0 - Over) .. (N - 1 + Over)

\* board.place_marker(row, col, marker)
CallPlaceMarker ==
    /\ last.op = "none"
    /\ \E row \in Coords, col \in Coords, marker \in Markers :
           LET r == place_marker(board, row, col, marker)
           IN  /\ board' = r.board
               /\ last' = [op |-> "place_marker", args |-> <<row, col, marker>>,
                           before |-> board, exc |-> r.exc, ret |-> <<>>]
    /\ UNCHANGED runnerVars

\* bot.make_move(board)
CallMakeMove ==
    /\ last.op = "none"
    /\ \E bot \in Bots, choice \in ChoiceInputs(board) :
           LET r == make_move(bot, board, choice)
           IN  /\ board' = r.board
               /\ last' = [op |-> "make_move", args |-> <<bot.marker>>,
                           before |-> board, exc |-> r.exc, ret |-> r.ret]
    /\ UNCHANGED runnerVars

\* board.available_moves()
CallAvailableMoves ==
    /\ last.op = "none"
    /\ last' = [op |-> "available_moves", args |-> <<>>, before |-> board,
                exc |-> "none", ret |-> available_moves(board)]
    /\ UNCHANGED <<board, runnerVars>>

NextApi == Arrange \/ CallPlaceMarker \/ CallMakeMove \/ CallAvailableMoves

SpecApi == Init /\ [][NextApi]_vars

\* game_logic.check_win(marker)
CallCheckWin ==
    /\ last.op = "none"
    /\ \E marker \in Markers :
           last' = [op |-> "check_win", args |-> <<marker>>, before |-> board,
                    exc |-> "none", ret |-> check_win(board, marker)]
    /\ UNCHANGED <<board, runnerVars>>

\* game_logic.check_draw()
CallCheckDraw ==
    /\ last.op = "none"
    /\ last' = [op |-> "check_draw", args |-> <<>>, before |-> board,
                exc |-> "none", ret |-> check_draw(board)]
    /\ UNCHANGED <<board, runnerVars>>

NextLogic == Arrange \/ CallCheckWin \/ CallCheckDraw

SpecLogic == Init /\ [][NextLogic]_vars

\* board.is_full()
CallIsFull ==
    /\ last.op = "none"
    /\ last' = [op |-> "is_full", args |-> <<>>, before |-> board,
                exc |-> "none", ret |-> is_full(board)]
    /\ UNCHANGED <<board, runnerVars>>

\* board.get_cell(row, col)
CallGetCell ==
    /\ last.op = "none"
    /\ \E row \in Coords, col \in Coords :
           LET r == get_cell(board, row, col)
           IN  last' = [op |-> "get_cell", args |-> <<row, col>>, before |-> board,
                        exc |-> r.exc, ret |-> r.ret]
    /\ UNCHANGED <<board, runnerVars>>

\* str(board)
CallStr ==
    /\ last.op = "none"
    /\ last' = [op |-> "str", args |-> <<>>, before |-> board,
                exc |-> "none", ret |-> Str(board)]
    /\ UNCHANGED <<board, runnerVars>>

NextRead == Arrange \/ CallIsFull \/ CallGetCell \/ CallStr

SpecRead == Init /\ [][NextRead]_vars

----------------------------------------------------------------------------
(* Vocabulary of the claims *)

\* The three end-of-game lines, as run_game prints them.
EndLines == {"\nPLAYER X WON!", "\nPLAYER O WON!", "\nGAME DRAW!"}

\* How the match stands, read off the position of run_game and its last print.
Outcome ==
    IF pc = "raised" THEN "Raised"
    ELSE IF pc # "done" THEN "InProgress"
    ELSE IF output[Len(output)] = "\nPLAYER X WON!" THEN "Won(X)"
    ELSE IF output[Len(output)] = "\nPLAYER O WON!" THEN "Won(O)"
    ELSE IF output[Len(output)] = "\nGAME DRAW!" THEN "Draw"
    ELSE "Error"

\* The coordinates (row, col) of the nine cells.
Grid == Range \X Range

\* The number of cells of b holding v.
Count(b, v) == Cardinality({rc \in Grid : b[rc[1]][rc[2]] = v})

\* The coordinates of the empty cells of b.
EmptyCells(b) == {rc \in Grid : b[rc[1]][rc[2]] = None}

----------------------------------------------------------------------------
(* Claims *)

\* C1: a full match run makes at most 9 moves, terminates, and ends in exactly
\* one of Won(X), Won(O), Draw: from some point on run_game has returned with
\* exactly one end-of-game line printed, as its last line.
C1_MatchTerminates ==
    /\ [](Len(moveLog) <= N * N)
    /\ <>[](/\ pc = "done"
            /\ Outcome \in {"Won(X)", "Won(O)", "Draw"}
            /\ Cardinality({i \in DOMAIN output : output[i] \in EndLines}) = 1)

\* C1 witness: a match that used all nine moves and ended in a draw.
C1_Witness == pc = "done" /\ Len(moveLog) = N * N /\ Outcome = "Draw"

\* C2: write-once cells: no step of any sequence of place_marker / make_move
\* calls, successful or failing, changes or clears an occupied cell.
C2_WriteOnce ==
    [][\A row \in Range, col \in Range :
           board[row][col] # None => board'[row][col] = board[row][col]]_vars

\* C2 witness: a call that changed a board on which a cell was already occupied.
C2_Witness ==
    /\ last.op \in {"place_marker", "make_move"}
    /\ last.exc = "none"
    /\ Count(last.before, None) < N * N
    /\ board # last.before

\* What get_cell(row, col) gave before the observed place_marker(row, col, _).
CellBefore == get_cell(last.before, last.args[1], last.args[2])

\* C3: place_marker on a cell that is not empty raises ValueError, whatever the
\* marker, and leaves the whole board as it was.
C3_PlaceOccupiedFails ==
    (last.op = "place_marker" /\ CellBefore.exc = "none" /\ CellBefore.ret # None)
        => (last.exc = "ValueError" /\ board = last.before)

\* C3 witness: a place_marker call on a cell already holding that same marker.
C3_Witness ==
    /\ last.op = "place_marker"
    /\ CellBefore = [exc |-> "none", ret |-> last.args[3]]
    /\ last.exc = "ValueError"

\* C4: a place_marker call on an empty cell succeeds, get_cell then returns
\* the placed marker, and every other cell is unchanged.
C4_PlaceSetsOneCell ==
    (last.op = "place_marker" /\ CellBefore = [exc |-> "none", ret |-> None])
        => /\ last.exc = "none"
           /\ get_cell(board, last.args[1], last.args[2])
                  = [exc |-> "none", ret |-> last.args[3]]
           /\ Cardinality({rc \in Grid :
                  board[rc[1]][rc[2]] = last.before[rc[1]][rc[2]]}) = 8

\* C4 witness: a successful place_marker call on a board holding both markers.
C4_Witness ==
    /\ last.op = "place_marker"
    /\ last.exc = "none"
    /\ Count(last.before, "X") > 0
    /\ Count(last.before, "O") > 0

\* The 8 winning lines: 3 rows, 3 columns, the main and the anti-diagonal.
WinLines ==
    { {<<0, 0>>, <<0, 1>>, <<0, 2>>},
      {<<1, 0>>, <<1, 1>>, <<1, 2>>},
      {<<2, 0>>, <<2, 1>>, <<2, 2>>},
      {<<0, 0>>, <<1, 0>>, <<2, 0>>},
      {<<0, 1>>, <<1, 1>>, <<2, 1>>},
      {<<0, 2>>, <<1, 2>>, <<2, 2>>},
      {<<0, 0>>, <<1, 1>>, <<2, 2>>},
      {<<0, 2>>, <<1, 1>>, <<2, 0>>} }

\* Some winning line of b holds marker m in all three cells.
HasLine(b, m) == \E line \in WinLines : \A rc \in line : b[rc[1]][rc[2]] = m

\* C5: for every board content and marker, check_win is true exactly when one
\* of the 8 lines holds the marker in all three cells; it is false when fewer
\* than three cells hold the marker.
C5_HasWonIffLine ==
    last.op = "check_win"
        => /\ last.ret = HasLine(last.before, last.args[1])
           /\ Count(last.before, last.args[1]) < 3 => last.ret = FALSE

\* C5 witness: check_win answered True on a board whose only three cells of
\* the marker are the anti-diagonal.
C5_Witness ==
    /\ last.op = "check_win"
    /\ last.ret = TRUE
    /\ Count(last.before, last.args[1]) = 3
    /\ \A i \in Range : last.before[i][2 - i] = last.args[1]

\* C6: for every board content, check_draw is true exactly when no cell is
\* empty and check_win is false for X and for O: false on a full board with a
\* winning line, false on a board with an empty cell.
C6_IsDrawIffFullNoWin ==
    last.op = "check_draw"
        => /\ last.ret = (/\ EmptyCells(last.before) = {}
                          /\ ~check_win(last.before, "X")
                          /\ ~check_win(last.before, "O"))
           /\ (HasLine(last.before, "X") \/ HasLine(last.before, "O"))
                  => last.ret = FALSE
           /\ EmptyCells(last.before) # {} => last.ret = FALSE

\* C6 witness: check_draw answered False on a full board on which O has a line.
C6_Witness ==
    /\ last.op = "check_draw"
    /\ EmptyCells(last.before) = {}
    /\ HasLine(last.before, "O")
    /\ last.ret = FALSE

\* C7: make_move on a board with no available move raises ValueError and
\* leaves every cell unchanged.
C7_MoveOnFullBoardFails ==
    (last.op = "make_move" /\ EmptyCells(last.before) = {})
        => (last.exc = "ValueError" /\ board = last.before)

\* C7 witness: a make_move call on a full board.
C7_Witness ==
    /\ last.op = "make_move"
    /\ EmptyCells(last.before) = {}
    /\ last.exc = "ValueError"

\* C8: make_move on a board with an empty cell, whatever random.choice gives:
\* it returns a member of available_moves() as it was before the call, which
\* was empty, that cell now holds the bot's marker, and no other cell changed.
C8_MoveFillsAnAvailableCell ==
    (last.op = "make_move" /\ EmptyCells(last.before) # {})
        => /\ last.exc = "none"
           /\ last.ret \in Choices(available_moves(last.before))
           /\ last.ret \in EmptyCells(last.before)
           /\ board[last.ret[1]][last.ret[2]] = last.args[1]
           /\ \A row \in Range, col \in Range :
                  <<row, col>> # last.ret => board[row][col] = last.before[row][col]

\* C8 witness: the O bot moved on a board with occupied and several empty cells.
C8_Witness ==
    /\ last.op = "make_move"
    /\ last.args[1] = "O"
    /\ last.exc = "none"
    /\ Count(last.before, None) \in 2 .. 7

\* C9: the match starts with X to move and the moves alternate: the k-th move
\* is X's for odd k and O's for even k, so the board holds as many X as O, or
\* one X more.
C9_TurnOrder ==
    /\ moveLog = <<>> => current_player = "X"
    /\ \A k \in 1 .. Len(moveLog) : moveLog[k] = (IF k % 2 = 1 THEN "X" ELSE "O")
    /\ Count(board, "X") - Count(board, "O") \in {0, 1}

\* C9 witness: the ninth move of a match has been made.
C9_Witness == Len(moveLog) = N * N /\ Count(board, "X") = Count(board, "O") + 1

\* C10: available_moves() has 9 entries on a fresh board, lists exactly the
\* empty coordinates, each once, and has one entry less after a successful
\* place_marker and as many as before after a failed one.
C10_AvailableMoves ==
    LET moves == available_moves(board)
        empty == EmptyCells(board)
    IN  /\ board = EmptyBoard => Len(moves) = 9
        /\ Choices(moves) = empty
        /\ Len(moves) = Cardinality(empty)
        /\ last.op = "available_moves"
               => /\ Choices(last.ret) = empty
                  /\ Len(last.ret) = Cardinality(empty)
        /\ last.op = "place_marker"
               => Len(moves) = Len(available_moves(last.before))
                                   - (IF last.exc = "none" THEN 1 ELSE 0)

\* C10 witness: a failed place_marker call on a board with moves left.
C10_Witness ==
    /\ last.op = "place_marker"
    /\ last.exc = "ValueError"
    /\ Len(available_moves(board)) \in 1 .. 8

\* C11: after any sequence of place_marker calls on a fresh board, is_full()
\* is true exactly when no cell is empty: false while fewer than 9 cells are
\* occupied, true once all 9 are.
C11_IsFullIffNoEmpty ==
    last.op = "is_full"
        => /\ last.ret = (EmptyCells(board) = {})
           /\ last.ret = (Count(board, "X") + Count(board, "O") = 9)

\* C11 witness: is_full answered False on a board with a single empty cell, in
\* the last row.
C11_Witness ==
    /\ last.op = "is_full"
    /\ last.ret = FALSE
    /\ EmptyCells(board) \in {{<<2, 0>>}, {<<2, 1>>}, {<<2, 2>>}}

\* C12: get_cell(row, col) raises an index error for every coordinate whose
\* row or col is outside {0, 1, 2}, negative values included, and returns no
\* cell value for it.
C12_GetOutsideGridRaises ==
    (last.op = "get_cell" /\ (last.args[1] \notin {0, 1, 2} \/ last.args[2] \notin {0, 1, 2}))
        => last.exc = "IndexError"

\* The three prints of run_game before its loop.
Prelude == <<"Starting Tic-Tac-Toe Bot vs Bot game:", "\nInitial board:", "<board>">>

\* The line announcing a move of marker m, as run_game prints it.
Header(m) == "\nPlayer " \o m \o ":"

\* One block per move of log: the header of the mover, then a board.
RECURSIVE Blocks(_)
Blocks(log) ==
    IF log = <<>> THEN <<>>
    ELSE <<Header(Head(log)), "<board>">> \o Blocks(Tail(log))

\* All of a sequence but its last element.
Front(seq) == SubSeq(seq, 1, Len(seq) - 1)

\* The end-of-game line is printed at most once, only as run_game ends, and
\* nothing is printed after it.
EndLineOnceAndLast ==
    \A i \in DOMAIN output :
        output[i] \in EndLines => (pc = "done" /\ i = Len(output))

\* Each board printed after a move is the rendering of the board as that move
\* left it: when the k-th board has just been printed, k cells are occupied
\* and the text is that of the board.
BoardShownAfterMove ==
    pc = "check_win"
        => /\ output[Len(output)] = "<board>"
           /\ shown = Str(board)
           /\ Count(board, "X") + Count(board, "O") = Len(moveLog)

\* C13 as stated: the output of a match is one block per move, the k-th being
\* the header "Player <m>:" of the k-th mover followed by the board rendered
\* after that move, then the end-of-game line, emitted once and last.
C13_OutputIsMoveBlocks ==
    /\ pc = "done" => \E end \in EndLines : output = Blocks(moveLog) \o <<end>>
    /\ EndLineOnceAndLast
    /\ BoardShownAfterMove

\* C13 amended: after the three opening prints of run_game (the banner,
\* "Initial board:" and the empty board) the output is one block per move,
\* the k-th being the header of the k-th mover followed by the board rendered
\* after that move, then the end-of-game line, emitted once and last.
C13_OutputAfterPrelude ==
    /\ pc = "done"
           => \E end \in EndLines : output = Prelude \o Blocks(moveLog) \o <<end>>
    /\ pc \in {"announce", "check_win", "check_draw", "switch"}
           => output = Prelude \o Blocks(moveLog)
    /\ pc = "move"
           => output = Prelude \o Blocks(moveLog) \o <<Header(current_player)>>
    /\ pc = "display"
           => output = Prelude \o Blocks(Front(moveLog))
                           \o <<Header(moveLog[Len(moveLog)])>>
    /\ EndLineOnceAndLast
    /\ BoardShownAfterMove

\* C13 witness: a finished match that O won with the sixth move.
C13_Witness == pc = "done" /\ Outcome = "Won(O)" /\ Len(moveLog) = 6

\* The character of a cell in the canonical text: its marker, or one space.
CellChar(cell) == IF cell = None THEN " " ELSE cell

\* A row line of the canonical text: the three cells joined by "|".
RowLine(b, row) ==
    CellChar(b[row][0]) \o "|" \o CellChar(b[row][1]) \o "|" \o CellChar(b[row][2])

\* The canonical text: row, divider, row, divider, row, newlines in between
\* and none at the end.
FiveLines(b) ==
    RowLine(b, 0) \o "\n" \o "-+-+-" \o "\n" \o RowLine(b, 1)
                  \o "\n" \o "-+-+-" \o "\n" \o RowLine(b, 2)

\* The board with X at (0, 0), O at (1, 1) and nothing else.
ExampleBoard == [EmptyBoard EXCEPT ![0][0] = "X", ![1][1] = "O"]

\* C14: for every board content str(board) is the five lines row, "-+-+-",
\* row, "-+-+-", row joined by newlines with no trailing newline, each row the
\* three cells' characters joined by "|"; the board with X at (0,0) and O at
\* (1,1) renders as "X| | \n-+-+-\n |O| \n-+-+-\n | | ".
C14_RenderFiveLines ==
    last.op = "str"
        => /\ last.ret = FiveLines(last.before)
           /\ Len(last.ret) = 29
           /\ last.before = ExampleBoard
                  => last.ret = "X| | \n-+-+-\n |O| \n-+-+-\n | | "

\* C14 witness: str() of the example board.
C14_Witness == last.op = "str" /\ last.before = ExampleBoard

\* The marker that made the latest move of the match.
LastMover == moveLog[Len(moveLog)]

\* The step that follows a move is over: run_game has ended, or has flipped
\* the turn and is back at the top of its loop.
StepOver == moveLog # <<>> /\ pc \in {"done", "announce", "move"}

C16_NoMovesPathUnreachable ==
    /\ pc = "move"
           => /\ EmptyCells(board) # {}
              /\ available_moves(board) # <<>>
              /\ \A choice \in ChoiceInputs(board) :
                     make_move(CurrentBot, board, choice).exc = "none"
    /\ Outcome \notin {"Error", "Raised"}
    /\ \A i \in DOMAIN output :
           output[i] \notin {"Error: No available moves"}
                                \cup {"Error: Cell (" \o IntStr(rc[1]) \o ", "
                                          \o IntStr(rc[2]) \o ") already occupied" :
                                      rc \in Grid}

\* C16 witness: the bot is asked for the ninth move, one cell being empty.
C16_Witness == pc = "move" /\ Len(moveLog) = 8 /\ Cardinality(EmptyCells(board)) = 1

====
